---- MODULE Spec2Model ----
(***************************************************************************)
(* The notebooks 01, 02, 03 (the last one holds two notebooks, one that    *)
(* trains the solutions and one that deploys campaigns and filters) run    *)
(* cell by cell against the Amazon Personalize control plane.  The model   *)
(* follows one "Run All" of each notebook in order: a cell that raises     *)
(* stops the run, a cell that returns hands over to the next cell.         *)
(* Time is counted in seconds of time.time(); only the cells that sleep or *)
(* poll read or spend it, and the clock is counted from the first          *)
(* statement of the polling cell that reads it.                            *)
(***************************************************************************)
EXTENDS Naturals, Integers, Sequences, FiniteSets, TLC

(* ------------------------------ bounds --------------------------------- *)
\* seconds that stand for one of the hours of max_time (3600 in the code)
HourLen == 60
\* longest time one remote call may take, in seconds; a call takes 0 or this
MaxCallSeconds == 60
\* number of genres the item metadata holds after extraction
NumGenres == 7
\* number of create_filter calls the service answers with an error in one run
MaxFilterErrors == 2
\* longest value of the column GENRE, in characters
MaxValLen == 2
\* number of unique values of the column GENRE
MaxValues == 2
\* number of rows of ratings.csv
MaxRows == 2

(* ------------------------- program constants --------------------------- *)
PollSleep == 60
RoleSleep == 60
DatasetGroupHours == 3
ImportJobHours == 6
SolutionVersionHours == 10
CampaignHours == 3
RetrySleep == 120
SampleSize == 7
WatchRating == 3
ClickRating == 1

(* -------------------------- status tokens ------------------------------ *)
\* the tokens a describe_* call of the service returns; "CREATE FAILED" is
\* the token the loops compare with, "CREATE_FAILED" is a failure token in
\* the other spelling, which no comparison of the notebooks knows
Pending == "CREATE PENDING"
InProgress == "CREATE IN_PROGRESS"
Active == "ACTIVE"
Failed == "CREATE FAILED"
OtherFailed == "CREATE_FAILED"
Tokens == {Pending, InProgress, Active, Failed, OtherFailed}
TerminalTokens == {Active, Failed, OtherFailed}

\* errors a describe_* call may raise instead of returning
Throttling == "ThrottlingException"
NotFound == "ResourceNotFoundException"
DescribeErrors == {Throttling, NotFound}

\* error codes of the ClientError a create_filter call may raise
LimitExceeded == "LimitExceededException"
AlreadyExists == "ResourceAlreadyExistsException"
FilterErrors == {LimitExceeded, AlreadyExists}

\* how long one remote call takes
CallSeconds == {0, MaxCallSeconds}

\* position of a token in the life cycle of a job at the service
Rank(s) ==
  CASE s = "none" -> 0
    [] s = Pending -> 1
    [] s = InProgress -> 2
    [] OTHER -> 3

\* the tokens the service may answer after it answered s for the same job:
\* a job moves forward in its life cycle and stays in its terminal state
NextTokens(s) ==
  IF s \in TerminalTokens THEN {s} ELSE {t \in Tokens : Rank(t) >= Rank(s)}

(* ----------------------------- the cells ------------------------------- *)
Program ==
  << "nb01_create_dataset_group", "nb01_dsg_loop", "nb01_create_schema",
     "nb01_create_dataset", "nb01_upload", "nb01_create_role",
     "nb01_create_import_job", "nb01_import_loop", "nb01_save",
     "nb02_start", "nb02_create_schema", "nb02_create_dataset", "nb02_upload",
     "nb02_create_import_job", "nb02_import_loop", "nb02_save",
     "nb03_start", "nb03_create_solution_up", "nb03_create_sv_up",
     "nb03_create_solution_sims", "nb03_create_sv_sims",
     "nb03_create_solution_rerank", "nb03_create_sv_rerank",
     "nb03_sv_loop", "nb03_metrics", "nb03_save",
     "nb04_start", "nb04_create_campaign_up", "nb04_create_campaign_sims",
     "nb04_create_campaign_rerank", "nb04_campaign_loop", "nb04_genres",
     "nb04_sample", "nb04_meta_list", "nb04_genre_filters",
     "nb04_event_filters", "nb04_decade_filter", "nb04_filter_lists",
     "nb04_save" >>

CellIndex(c) == CHOOSE i \in 1..Len(Program) : Program[i] = c

\* a run in which the cell of the campaign polling loop is left out
NextCell_SkipPolling(c) ==
  IF CellIndex(c) = Len(Program) THEN "done"
  ELSE IF Program[CellIndex(c) + 1] = "nb04_campaign_loop"
         THEN Program[CellIndex(c) + 2]
  ELSE Program[CellIndex(c) + 1]

\* the cell that runs after cell c returned
NextCell(c) ==
  IF CellIndex(c) = Len(Program) THEN "done" ELSE Program[CellIndex(c) + 1]

\* cells that only issue one create_* call and keep the ARN it returns
CreateCells ==
  { "nb01_create_dataset_group", "nb01_create_schema", "nb01_create_dataset",
    "nb01_create_import_job", "nb02_create_schema", "nb02_create_dataset",
    "nb02_create_import_job", "nb03_create_solution_up", "nb03_create_sv_up",
    "nb03_create_solution_sims", "nb03_create_sv_sims",
    "nb03_create_solution_rerank", "nb03_create_sv_rerank",
    "nb04_create_campaign_up", "nb04_create_campaign_sims",
    "nb04_create_campaign_rerank" }

UploadCells == {"nb01_upload", "nb02_upload"}
StartCells == {"nb02_start", "nb03_start", "nb04_start"}
\* the start cells that open a notebook file (nb04_start is the second
\* notebook held by the file of notebook 03)
FileStartCells == {"nb02_start", "nb03_start"}
SaveCells == {"nb01_save", "nb02_save", "nb03_save", "nb04_save"}
SingleLoopCells == {"nb01_dsg_loop", "nb01_import_loop", "nb02_import_loop"}
MultiLoopCells == {"nb03_sv_loop", "nb04_campaign_loop"}
LoopCells == SingleLoopCells \cup MultiLoopCells

\* the ARN a polling loop describes (single-job loops)
LoopHandle(c) ==
  CASE c = "nb01_dsg_loop" -> "dataset_group_arn"
    [] c = "nb01_import_loop" -> "dataset_import_job_arn"
    [] c = "nb02_import_loop" -> "item_dataset_import_job_arn"

\* the hours of max_time of each polling loop
LoopHours(c) ==
  CASE c = "nb01_dsg_loop" -> DatasetGroupHours
    [] c = "nb01_import_loop" -> ImportJobHours
    [] c = "nb02_import_loop" -> ImportJobHours
    [] c = "nb03_sv_loop" -> SolutionVersionHours
    [] c = "nb04_campaign_loop" -> CampaignHours

\* the list a multi-handle loop starts with
LoopList(c) ==
  CASE c = "nb03_sv_loop" ->
         << "userpersonalization_solution_version_arn",
            "sims_solution_version_arn", "rerank_solution_version_arn" >>
    [] c = "nb04_campaign_loop" ->
         << "userpersonalization_campaign_arn", "sims_campaign_arn",
            "rerank_campaign_arn" >>

Handles ==
  { "dataset_group_arn", "dataset_import_job_arn",
    "item_dataset_import_job_arn",
    "userpersonalization_solution_version_arn", "sims_solution_version_arn",
    "rerank_solution_version_arn", "userpersonalization_campaign_arn",
    "sims_campaign_arn", "rerank_campaign_arn" }

\* the file save_json writes in each save cell
SaveFile(c) ==
  CASE c = "nb01_save" -> "results/01.json"
    [] c = "nb02_save" -> "results/02.json"
    [] c = "nb03_save" -> "results/03.json"
    [] c = "nb04_save" -> "results/04.json"

ResultFiles ==
  {"results/01.json", "results/02.json", "results/03.json", "results/04.json"}

\* a list of genres that holds its first genre twice
AllGenres_NoSet ==
  [i \in 1..NumGenres |-> "genre" \o ToString(IF i = 2 THEN 1 ELSE i)]

\* the genres of the item metadata, genres_to_filter before the sample:
\* list(set(genre_val_list)) holds each genre once
AllGenres == [i \in 1..NumGenres |-> "genre" \o ToString(i)]

\* the items of a list
Range(f) == {f[i] : i \in DOMAIN f}

\* the ARN the service gives the filter created under a name
FilterArn(name) == "filter/" \o name

\* the sequence of the items of list at the positions in keep, in list order
RECURSIVE Pick(_, _, _)
Pick(list, keep, i) ==
  IF i > Len(list) THEN << >>
  ELSE (IF i \in keep THEN << list[i] >> ELSE << >>) \o Pick(list, keep, i + 1)

\* a sample that takes the first item once more
Samples_Repeat(list, k) ==
  { Pick(list, keep, 1) \o << list[1] >> :
      keep \in { K \in SUBSET (1..Len(list)) : Cardinality(K) = k } }

\* the outcomes of random.sample(list, k) taken up to the order of the sample
Samples(list, k) ==
  { Pick(list, keep, 1) :
      keep \in { K \in SUBSET (1..Len(list)) : Cardinality(K) = k } }

(* ------------------------------ state ---------------------------------- *)
VARIABLES
  pc,             \* the cell that runs, or "done"
  step,           \* the position inside the cell
  raised,         \* the error that stopped the run, or "none"
  now,            \* time.time()
  max_time,       \* max_time of the polling loop
  status,         \* the variable status of the polling loops
  in_progress,    \* in_progress_solution_versions / in_progress_campaigns
  idx,            \* items the for statement has taken from in_progress
  hist,           \* the statuses a single-job loop printed, in order
  calls,          \* describe_* calls started by the single-job loop
  sleeps,         \* time.sleep(60) calls finished by the single-job loop
  tickStart,      \* in_progress when the for statement of this tick began
  polled,         \* handles described in this tick
  unpolled,       \* for each handle, the ticks in a row that ended with the
                  \* handle pending and not described
  printed,        \* "Build succeeded/failed for" lines of the loop
  last,           \* last token the service answered for each handle
  exitBy,         \* how the loop ended: "none", "break" or "deadline"
  lateCall,       \* a describe_* call of the loop started at or after max_time
  observedActive, \* handles for which a describe_* call answered ACTIVE
  issued,         \* cells whose create_* call was issued
  described,      \* ARNs a describe_* call of this kernel was made for
  ended,          \* polling cells of this notebook file that have ended
  genres_to_filter,
  gi,             \* genres the for statement has taken from genres_to_filter
  meta_filter_arns,
  interaction_filter_arns,
  decade_filter_arns,
  filters,        \* ARNs of the filters the service has created
  filterErrors,   \* create_filter calls the service answered with an error
  filterCalls,    \* the create_filter calls sent, in order, with their outcome
  results,        \* the data of each file under results/
  store,          \* the variables %store has written to the IPython database
  local,          \* the CSV files written to data_dir
  bucket,         \* the locations upload_file has written in the bucket
  imports,        \* dataLocation of the import jobs the service accepted
  existing,       \* the create_* cells whose resource name exists at the service
  rerun,          \* the notebook that is run a second time, or "none"
  unique_genre_field_values,  \* items_df['GENRE'].unique()
  genre_val_list,
  vi,             \* values the for statement has taken from the column
  original_data,  \* the rows of ratings.csv
  watched_df,
  clicked_df,
  interactions_df,
  csv             \* the rows of interactions.csv

vars ==
  << pc, step, raised, now, max_time, status, in_progress, idx, hist, calls,
     sleeps, tickStart, polled, unpolled, printed, last, exitBy, lateCall,
     observedActive, issued, described, ended, genres_to_filter, gi, meta_filter_arns,
     interaction_filter_arns, decade_filter_arns, filters, filterErrors,
     filterCalls, results, store, local, bucket, imports, existing, rerun,
     unique_genre_field_values, genre_val_list, vi,
     original_data, watched_df, clicked_df, interactions_df, csv >>

\* the variables of the cell that extracts the genres
genreVars == << unique_genre_field_values, genre_val_list, vi >>

\* the variables of the cells that prepare the interactions table
prepVars == << original_data, watched_df, clicked_df, interactions_df, csv >>

\* the files on disk and in the bucket, and the import jobs
s3Vars == << local, bucket, imports >>

\* the names taken at the service, and whether this is a second run
nameVars == << existing, rerun >>

\* the variables of the kernel that the polling loops assign
progVars == << max_time, status, in_progress, idx >>

\* what the model records about the polling loop that ran last
ghostVars ==
  << hist, calls, sleeps, tickStart, polled, unpolled, printed, last, exitBy,
     lateCall >>

\* what the model records about the notebook file that runs
fileVars == << observedActive, issued, described, ended >>

filterVars ==
  << genres_to_filter, gi, meta_filter_arns, interaction_filter_arns,
     decade_filter_arns, filters, filterErrors, filterCalls >>

NoneSeen == [h \in Handles |-> "none"]

\* no tick has ended with a pending handle that was not described
NonePolled == [h \in Handles |-> 0]

NoData == [k \in {} |-> ""]

\* a kernel in which no cell has run yet, and the service and the results
\* directory before the first call
Fresh ==
  /\ step = "start"
  /\ raised = "none"
  /\ now = 0
  /\ max_time = 0
  /\ status = "unset"
  /\ in_progress = << >>
  /\ idx = 0
  /\ hist = << >>
  /\ calls = 0
  /\ sleeps = 0
  /\ tickStart = << >>
  /\ polled = {}
  /\ unpolled = NonePolled
  /\ printed = << >>
  /\ last = NoneSeen
  /\ exitBy = "none"
  /\ lateCall = FALSE
  /\ observedActive = {}
  /\ issued = {}
  /\ described = {}
  /\ ended = {}
  /\ genres_to_filter = << >>
  /\ gi = 0
  /\ meta_filter_arns = << >>
  /\ interaction_filter_arns = << >>
  /\ decade_filter_arns = << >>
  /\ filters = {}
  /\ filterErrors = 0
  /\ filterCalls = << >>

\* the cell of the genres has not run
NoGenres ==
  /\ unique_genre_field_values = << >>
  /\ genre_val_list = << >>
  /\ vi = 0

\* the cells that prepare the interactions table are not followed
NoTables ==
  /\ original_data = << >>
  /\ watched_df = << >>
  /\ clicked_df = << >>
  /\ interactions_df = << >>
  /\ csv = << >>

\* the names of the %store lines of the cell after each save cell
StoreLines(c) ==
  CASE c = "nb01_save" ->
         { "USE_FULL_MOVIELENS", "dataset_dir", "interactions_dataset_arn",
           "dataset_group_arn", "bucket_name", "role_arn", "role_name",
           "data_dir", "region", "interaction_schema_arn" }
    [] c = "nb02_save" -> { "items_dataset_arn", "itemmetadataschema_arn" }
    [] c = "nb03_save" ->
         { "userpersonalization_solution_version_arn",
           "sims_solution_version_arn", "rerank_solution_version_arn",
           "user_personalization_solution_arn", "sims_solution_arn",
           "rerank_solution_arn" }
    [] c = "nb04_save" ->
         { "sims_campaign_arn", "userpersonalization_campaign_arn",
           "rerank_campaign_arn", "meta_filter_arns",
           "interaction_filter_arns", "decade_filter_arns" }

\* notebook 02 storing the ARN of the dataset group once more
StoreNames_Again(c) ==
  StoreLines(c) \cup (IF c = "nb02_save" THEN {"dataset_group_arn"} ELSE {})

\* the variables the %store lines after save cell c name
StoreNames(c) == StoreLines(c)

\* %store name, for every name of names: the value of the variable in the
\* kernel is written under its name, whatever the database held
Store(db, names, kernel) ==
  [ k \in DOMAIN db \cup (names \cap DOMAIN kernel) |->
      IF k \in names \cap DOMAIN kernel THEN kernel[k] ELSE db[k] ]

\* save_json finds a key of data among the stored results
DuplicateKey(stored, data) ==
  \E f \in DOMAIN stored : DOMAIN stored[f] \cap DOMAIN data # {}

\* save_json(path, data=data)
save_json(stored, path, data) == [stored EXCEPT ![path] = data]

\* the place of each cell in the program
Place == [c \in Range(Program) |-> CellIndex(c)]

\* the notebook a cell belongs to
Stage(c) ==
  IF Place[c] < Place["nb02_start"] THEN "01"
  ELSE IF Place[c] < Place["nb03_start"] THEN "02"
  ELSE IF Place[c] < Place["nb04_start"] THEN "03"
  ELSE "04"

Stages == {"01", "02", "03", "04"}

\* the persisted variables the configuration cells at the top of notebook
\* 01 assign, before its first call to the service
ConfigNames == {"USE_FULL_MOVIELENS", "data_dir", "dataset_dir"}

\* the persisted variables a cell assigns
Assigns(c) ==
  CASE c = "nb01_create_dataset_group" -> {"dataset_group_arn"}
    [] c = "nb01_create_schema" -> {"interaction_schema_arn"}
    [] c = "nb01_create_dataset" -> {"interactions_dataset_arn"}
    [] c = "nb01_upload" -> {"region", "bucket_name"}
    [] c = "nb01_create_role" -> {"role_name", "role_arn"}
    [] c = "nb02_create_schema" -> {"itemmetadataschema_arn"}
    [] c = "nb02_create_dataset" -> {"items_dataset_arn"}
    [] c = "nb03_create_solution_up" -> {"user_personalization_solution_arn"}
    [] c = "nb03_create_sv_up" -> {"userpersonalization_solution_version_arn"}
    [] c = "nb03_create_solution_sims" -> {"sims_solution_arn"}
    [] c = "nb03_create_sv_sims" -> {"sims_solution_version_arn"}
    [] c = "nb03_create_solution_rerank" -> {"rerank_solution_arn"}
    [] c = "nb03_create_sv_rerank" -> {"rerank_solution_version_arn"}
    [] c = "nb04_create_campaign_up" -> {"userpersonalization_campaign_arn"}
    [] c = "nb04_create_campaign_sims" -> {"sims_campaign_arn"}
    [] c = "nb04_create_campaign_rerank" -> {"rerank_campaign_arn"}
    [] c = "nb04_meta_list" -> {"meta_filter_arns"}
    [] c = "nb04_genre_filters" -> {"meta_filter_arns"}
    [] c = "nb04_filter_lists" ->
         {"interaction_filter_arns", "decade_filter_arns"}
    [] OTHER -> {}

\* nothing is on disk or in the bucket, and the service holds no resource
NoService ==
  /\ local = {}
  /\ bucket = {}
  /\ imports = {}
  /\ existing = {}
  /\ rerun = "none"

\* no run has persisted anything
NoResults ==
  /\ results = [f \in ResultFiles |-> NoData]
  /\ store = NoData

\* what a run of notebook 01 on this machine left behind
Earlier == [k \in StoreLines("nb01_save") |-> "earlier"]

\* the first cell of notebook 01 that calls the service is about to run; the
\* results directory and the IPython database are empty or hold, each on
\* its own, what an earlier run of notebook 01 left
Init ==
  /\ pc = Program[1]
  /\ Fresh
  /\ NoGenres
  /\ NoTables
  /\ results \in { [f \in ResultFiles |-> NoData],
                    [f \in ResultFiles |->
                       IF f = "results/01.json" THEN Earlier ELSE NoData] }
  /\ store \in {NoData, Earlier}
  /\ local = {"interactions.csv"}
  /\ bucket = {}
  /\ imports = {}
  /\ existing = {}
  /\ rerun = "none"

Running == raised = "none" /\ pc # "done"

\* the cell returns and the next cell runs
Leave ==
  /\ pc' = NextCell(pc)
  /\ step' = "start"

\* a polling cell returns
LeaveLoop(how) ==
  /\ exitBy' = how
  /\ ended' = ended \cup {pc}
  /\ Leave

\* the record of the last polling loop ends when the next cell runs
ClearGhosts ==
  /\ hist' = << >>
  /\ calls' = 0
  /\ sleeps' = 0
  /\ tickStart' = << >>
  /\ polled' = {}
  /\ unpolled' = NonePolled
  /\ printed' = << >>
  /\ last' = NoneSeen
  /\ exitBy' = "none"
  /\ lateCall' = FALSE

(* --------------------------- plain cells ------------------------------- *)
\* only the call that creates the dataset group carries a name
NamedCells_GroupOnly == {"nb01_create_dataset_group"}

\* the create_* cells whose call carries a name (create_solution_version
\* carries none)
NamedCells ==
  CreateCells \ {"nb03_create_sv_up", "nb03_create_sv_sims",
                 "nb03_create_sv_rerank"}

\* the cells that call create_dataset_import_job
ImportCells == {"nb01_create_import_job", "nb02_create_import_job"}

\* interactions_filename in notebook 01, itemmetadata_filename in notebook 02
Filename(c) == IF Stage(c) = "01" THEN "interactions.csv" ELSE "item-meta.csv"

\* bucket_name: assigned in notebook 01, read back by %store -r in notebook 02
BucketName(c) == IF Stage(c) = "01" THEN "bucket_name" ELSE store["bucket_name"]

\* Bucket(bucket_name).Object(filename): the place upload_file writes to
S3Object(bucket_name, filename) == "s3://" \o bucket_name \o "/" \o filename

\* a dataLocation under a folder of the bucket
DataLocation_Folder(bucket_name, filename) ==
  "s3://" \o bucket_name \o "/data/" \o filename

\* "dataLocation": "s3://{}/{}".format(bucket_name, filename)
DataLocation(bucket_name, filename) ==
  "s3://" \o bucket_name \o "/" \o filename

\* a cell that issues one create_* call: the call is sent whatever the
\* polling loop before it saw, the ARN of the answer is kept
CreateCall ==
  /\ Running
  /\ UNCHANGED << genreVars, prepVars, store, local, bucket, rerun >>
  /\ pc \in CreateCells
  /\ IF pc \in existing
       THEN /\ raised' = AlreadyExists
            /\ UNCHANGED << pc, step, issued, imports, existing >>
       ELSE /\ issued' = issued \cup {pc}
            /\ existing' = existing \cup ({pc} \cap NamedCells)
            /\ imports' =
                 IF pc \in ImportCells
                   THEN imports \cup {DataLocation(BucketName(pc), Filename(pc))}
                   ELSE imports
            /\ Leave
            /\ UNCHANGED raised
  /\ ClearGhosts
  /\ UNCHANGED << now, progVars, observedActive, described, ended,
                  filterVars, results >>

\* upload_file of the CSV to the bucket: the call returns when the object is
\* written, and raises when the local file is missing or the transfer fails
Upload ==
  /\ Running
  /\ UNCHANGED << genreVars, prepVars, store, local, imports, nameVars >>
  /\ pc \in UploadCells
  /\ IF Filename(pc) \in local
       THEN \/ /\ bucket' = bucket \cup {S3Object(BucketName(pc), Filename(pc))}
               /\ Leave
               /\ UNCHANGED raised
            \/ /\ raised' = "S3UploadFailedError"
               /\ UNCHANGED << pc, step, bucket >>
       ELSE /\ raised' = "FileNotFoundError"
            /\ UNCHANGED << pc, step, bucket >>
  /\ ClearGhosts
  /\ UNCHANGED << now, progVars, fileVars, filterVars, results >>

\* create_role, attach_role_policy twice, then time.sleep(60)
CreateRole ==
  /\ Running
  /\ UNCHANGED << genreVars, prepVars, store, s3Vars, nameVars >>
  /\ pc = "nb01_create_role"
  /\ now' = now + RoleSleep
  /\ Leave
  /\ ClearGhosts
  /\ UNCHANGED << raised, progVars, fileVars, filterVars, results >>

\* get_solution_metrics of the three solution versions
GetSolutionMetrics ==
  /\ Running
  /\ UNCHANGED << genreVars, prepVars, store, s3Vars, nameVars >>
  /\ pc = "nb03_metrics"
  /\ Leave
  /\ ClearGhosts
  /\ UNCHANGED << raised, now, progVars, fileVars, filterVars, results >>

\* the first cells of a notebook: a new kernel, %store -r brings back the
\* stored ARNs and nothing else; the record of what a run observed and
\* issued is kept per notebook file.  The first cells of notebook 02 end
\* with itemmetadata_df.to_csv, which writes item-meta.csv to data_dir.
StartNotebook ==
  /\ Running
  /\ UNCHANGED << genreVars, prepVars, store, bucket, imports, nameVars >>
  /\ pc \in StartCells
  /\ local' = IF pc = "nb02_start" THEN local \cup {Filename(pc)} ELSE local
  /\ now' = 0
  /\ max_time' = 0
  /\ status' = "unset"
  /\ in_progress' = << >>
  /\ idx' = 0
  /\ ClearGhosts
  /\ IF pc \in FileStartCells
       THEN observedActive' = {} /\ issued' = {} /\ ended' = {}
       ELSE UNCHANGED << observedActive, issued, ended >>
  /\ described' = {}
  /\ genres_to_filter' = << >>
  /\ gi' = 0
  /\ meta_filter_arns' = << >>
  /\ interaction_filter_arns' = << >>
  /\ decade_filter_arns' = << >>
  /\ Leave
  /\ UNCHANGED << raised, filters, filterErrors, filterCalls, results >>

\* the dictionary data of each save cell
SaveData(c) ==
  CASE c = "nb01_save" ->
         [ USE_FULL_MOVIELENS |-> "False",
           dataset_dir |-> "poc_data/ml-latest-small/",
           interactions_dataset_arn |-> "interactions_dataset_arn",
           dataset_group_arn |-> "dataset_group_arn",
           bucket_name |-> "bucket_name",
           role_arn |-> "role_arn",
           role_name |-> "sbcPersonalizePOCRolePOC",
           data_dir |-> "poc_data",
           region |-> "region",
           interaction_schema_arn |-> "interaction_schema_arn" ]
    [] c = "nb02_save" ->
         [ items_dataset_arn |-> "items_dataset_arn",
           itemmetadataschema_arn |-> "itemmetadataschema_arn" ]
    [] c = "nb03_save" ->
         [ userpersonalization_solution_version_arn |->
             "userpersonalization_solution_version_arn",
           sims_solution_version_arn |-> "sims_solution_version_arn",
           rerank_solution_version_arn |-> "rerank_solution_version_arn",
           user_personalization_solution_arn |->
             "user_personalization_solution_arn",
           sims_solution_arn |-> "sims_solution_arn",
           rerank_solution_arn |-> "rerank_solution_arn" ]
    [] c = "nb04_save" ->
         [ sims_campaign_arn |-> "sims_campaign_arn",
           userpersonalization_campaign_arn |->
             "userpersonalization_campaign_arn",
           rerank_campaign_arn |-> "rerank_campaign_arn",
           meta_filter_arns |-> meta_filter_arns,
           interaction_filter_arns |-> interaction_filter_arns,
           decade_filter_arns |-> decade_filter_arns ]

\* os.makedirs, data = {...}, save_json("results/0n.json", data=data) and
\* the %store lines of the cell after it, which runs when save_json returned
SaveResults ==
  /\ Running
  /\ UNCHANGED << genreVars, prepVars, s3Vars, nameVars >>
  /\ pc \in SaveCells
  /\ IF DuplicateKey(results, SaveData(pc))
       THEN /\ raised' = "DuplicateKeyError"
            /\ UNCHANGED << pc, step, results, store >>
       ELSE /\ results' = save_json(results, SaveFile(pc), SaveData(pc))
            /\ store' = Store(store, StoreNames(pc), SaveData(pc))
            /\ Leave
            /\ UNCHANGED raised
  /\ ClearGhosts
  /\ UNCHANGED << now, progVars, fileVars, filterVars >>

(* ------------------------- single-job loops ---------------------------- *)
\* a comparison that forgets the failure token
IsTerminal_OnlyActive(s) == s = "ACTIVE"

\* a comparison that forgets the success token
IsTerminal_OnlyFailed(s) == s = "CREATE FAILED"

\* a comparison that takes every token with FAILED in it for the failure
IsTerminal_AnyFailed(s) ==
  s = "ACTIVE" \/ s = "CREATE FAILED" \/ s = "CREATE_FAILED"

\* the comparison that ends a single-job loop
IsTerminal(s) == s = "ACTIVE" \/ s = "CREATE FAILED"

\* a deadline twice as far as the hours of the loop
MaxTime_Twice(c, t) == t + 2 * LoopHours(c) * HourLen

\* time.time() + h*60*60
MaxTime(c, t) == t + LoopHours(c) * HourLen

\* max_time = time.time() + h*60*60 (and, before it, the list of the
\* multi-handle loops); the clock is counted from this statement
LoopStart ==
  /\ Running
  /\ UNCHANGED << genreVars, prepVars, store, s3Vars, nameVars >>
  /\ pc \in LoopCells
  /\ step = "start"
  /\ now' = 0
  /\ max_time' = MaxTime(pc, now')
  /\ in_progress' = IF pc \in MultiLoopCells THEN LoopList(pc) ELSE in_progress
  /\ idx' = 0
  /\ ClearGhosts
  /\ step' = "while"
  /\ UNCHANGED << pc, raised, status, fileVars, filterVars, results >>

\* while time.time() < max_time
WhileCheck ==
  /\ Running
  /\ UNCHANGED << genreVars, prepVars, store, s3Vars, nameVars >>
  /\ pc \in SingleLoopCells
  /\ step = "while"
  /\ IF now < max_time
       THEN /\ step' = "describe"
            /\ UNCHANGED << pc, exitBy, ended >>
       ELSE LeaveLoop("deadline")
  /\ UNCHANGED << raised, now, progVars, hist, calls, sleeps, tickStart,
                  polled, unpolled, printed, last, lateCall, observedActive, issued,
                  described, filterVars, results >>

\* describe_*, status = ..., print, if status == "ACTIVE" or
\* status == "CREATE FAILED": break
Describe ==
  /\ Running
  /\ UNCHANGED << genreVars, prepVars, store, s3Vars, nameVars >>
  /\ pc \in SingleLoopCells
  /\ step = "describe"
  /\ calls' = calls + 1
  /\ lateCall' = (lateCall \/ now >= max_time)
  /\ described' = described \cup {LoopHandle(pc)}
  /\ \/ \E e \in DescribeErrors :
          /\ raised' = e
          /\ UNCHANGED << pc, step, now, status, hist, last, exitBy,
                          observedActive, ended >>
     \/ \E s \in NextTokens(last[LoopHandle(pc)]) :
          /\ \E d \in CallSeconds : now' = now + d
          /\ status' = s
          /\ hist' = Append(hist, s)
          /\ last' = [last EXCEPT ![LoopHandle(pc)] = s]
          /\ observedActive' =
               IF s = Active THEN observedActive \cup {LoopHandle(pc)}
               ELSE observedActive
          /\ IF IsTerminal(s)
               THEN LeaveLoop("break")
               ELSE /\ step' = "sleep"
                    /\ UNCHANGED << pc, exitBy, ended >>
          /\ UNCHANGED raised
  /\ UNCHANGED << max_time, in_progress, idx, sleeps, tickStart, polled, unpolled,
                  printed, issued, filterVars, results >>

\* time.sleep(60)
Sleep ==
  /\ Running
  /\ UNCHANGED << genreVars, prepVars, store, s3Vars, nameVars >>
  /\ pc \in SingleLoopCells
  /\ step = "sleep"
  /\ now' = now + PollSleep
  /\ sleeps' = sleeps + 1
  /\ step' = "while"
  /\ UNCHANGED << pc, raised, progVars, hist, calls, tickStart, polled, unpolled,
                  printed, last, exitBy, lateCall, fileVars, filterVars,
                  results >>

(* ------------------------ multi-handle loops --------------------------- *)
\* a removal that drops the head of the list, whatever x is
Remove_Head(list, x) == Tail(list)

\* a removal that leaves the list as it is
Remove_Nothing(list, x) == list

\* a removal that moves the last item into the place of x
Remove_SwapPop(list, x) ==
  IF \E i \in 1..Len(list) : list[i] = x
    THEN LET i == CHOOSE j \in 1..Len(list) : list[j] = x
             moved == [list EXCEPT ![i] = list[Len(list)]]
         IN  SubSeq(moved, 1, Len(list) - 1)
    ELSE list

\* list.remove(x): the list without the first item equal to x
RECURSIVE Remove(_, _)
Remove(list, x) ==
  IF list = << >> THEN << >>
  ELSE IF Head(list) = x THEN Tail(list)
  ELSE << Head(list) >> \o Remove(Tail(list), x)

\* while time.time() < max_time, and the for statement takes its iterator
MultiWhile ==
  /\ Running
  /\ UNCHANGED << genreVars, prepVars, store, s3Vars, nameVars >>
  /\ pc \in MultiLoopCells
  /\ step = "while"
  /\ IF now < max_time
       THEN /\ step' = "for"
            /\ idx' = 0
            /\ tickStart' = in_progress
            /\ polled' = {}
            /\ UNCHANGED << pc, exitBy, ended >>
       ELSE /\ LeaveLoop("deadline")
            /\ UNCHANGED << idx, tickStart, polled >>
  /\ UNCHANGED << raised, now, max_time, status, in_progress, hist, calls,
                  sleeps, unpolled, printed, last, lateCall, observedActive, issued,
                  described, filterVars, results >>

\* one round of "for arn in in_progress": the iterator hands out the item at
\* its index and moves on by one, whatever remove() did to the list; the
\* body describes the item and removes it when ACTIVE or "CREATE FAILED"
MultiFor ==
  /\ Running
  /\ UNCHANGED << genreVars, prepVars, store, s3Vars, nameVars >>
  /\ pc \in MultiLoopCells
  /\ step = "for"
  /\ IF idx < Len(in_progress)
       THEN LET h == in_progress[idx + 1] IN
            /\ idx' = idx + 1
            /\ polled' = polled \cup {h}
            /\ described' = described \cup {h}
            /\ lateCall' = (lateCall \/ now >= max_time)
            /\ \/ \E e \in DescribeErrors :
                    /\ raised' = e
                    /\ UNCHANGED << now, status, in_progress, printed, last,
                                    observedActive >>
               \/ \E s \in NextTokens(last[h]) :
                    /\ \E d \in CallSeconds : now' = now + d
                    /\ status' = s
                    /\ last' = [last EXCEPT ![h] = s]
                    /\ observedActive' =
                         IF s = Active THEN observedActive \cup {h}
                         ELSE observedActive
                    /\ IF s = "ACTIVE"
                         THEN /\ printed' = Append(printed, << "succeeded", h >>)
                              /\ in_progress' = Remove(in_progress, h)
                         ELSE IF s = "CREATE FAILED"
                         THEN /\ printed' = Append(printed, << "failed", h >>)
                              /\ in_progress' = Remove(in_progress, h)
                         ELSE UNCHANGED << printed, in_progress >>
                    /\ UNCHANGED raised
            /\ UNCHANGED << step, unpolled >>
       ELSE /\ step' = "after"
            /\ unpolled' = [h \in Handles |->
                              IF h \in Range(in_progress) /\ h \notin polled
                                THEN unpolled[h] + 1
                                ELSE 0]
            /\ UNCHANGED << raised, now, status, in_progress, idx, polled,
                            printed, last, lateCall, observedActive,
                            described >>
  /\ UNCHANGED << pc, max_time, hist, calls, sleeps, tickStart, exitBy,
                  issued, ended, filterVars, results >>

\* a test that lets the loop end with one handle left
NoneLeft_OffByOne(list) == Len(list) <= 1

\* len(in_progress) <= 0
NoneLeft(list) == Len(list) <= 0

\* if len(in_progress) <= 0: break, else print("At least one ... is still in
\* progress") and go on to time.sleep(60)
MultiAfter ==
  /\ Running
  /\ UNCHANGED << genreVars, prepVars, store, s3Vars, nameVars >>
  /\ pc \in MultiLoopCells
  /\ step = "after"
  /\ IF NoneLeft(in_progress)
       THEN LeaveLoop("break")
       ELSE /\ step' = "sleep"
            /\ UNCHANGED << pc, exitBy, ended >>
  /\ UNCHANGED << raised, now, progVars, hist, calls, sleeps, tickStart,
                  polled, unpolled, printed, last, lateCall, observedActive, issued,
                  described, filterVars, results >>

\* time.sleep(60) of a multi-handle loop
MultiSleep ==
  /\ Running
  /\ UNCHANGED << genreVars, prepVars, store, s3Vars, nameVars >>
  /\ pc \in MultiLoopCells
  /\ step = "sleep"
  /\ now' = now + PollSleep
  /\ step' = "while"
  /\ UNCHANGED << pc, raised, progVars, ghostVars, fileVars, filterVars,
                  results >>

(* ------------------------------ filters -------------------------------- *)
\* unique_genre_field_values ... genres_to_filter = list(set(genre_val_list));
\* the section that creates and polls jobs is over, and with it the record
\* of what its polling observed, the iterator of its for statement and the
\* clock of its loop: the clock is counted anew for the sleeps of the filter
\* cells.  The items of genres_to_filter stand for distinct genre names; the
\* extraction itself is followed character by character under GenreSpec.
Genres ==
  /\ Running
  /\ UNCHANGED << genreVars, prepVars, store, s3Vars, nameVars >>
  /\ pc = "nb04_genres"
  /\ genres_to_filter' = AllGenres
  /\ now' = 0
  /\ idx' = 0
  /\ observedActive' = {}
  /\ issued' = {}
  /\ Leave
  /\ ClearGhosts
  /\ UNCHANGED << raised, max_time, status, in_progress, described, ended, gi,
                  meta_filter_arns,
                  interaction_filter_arns, decade_filter_arns, filters,
                  filterErrors, filterCalls, results >>

\* genres_to_filter = random.sample(genres_to_filter, 7)
Sample ==
  /\ Running
  /\ UNCHANGED << genreVars, prepVars, store, s3Vars, nameVars >>
  /\ pc = "nb04_sample"
  /\ IF Len(genres_to_filter) < SampleSize
       THEN /\ raised' = "ValueError"
            /\ UNCHANGED << pc, step, genres_to_filter >>
       ELSE /\ genres_to_filter' \in Samples(genres_to_filter, SampleSize)
            /\ Leave
            /\ UNCHANGED raised
  /\ ClearGhosts
  /\ UNCHANGED << now, progVars, fileVars, gi, meta_filter_arns,
                  interaction_filter_arns, decade_filter_arns, filters,
                  filterErrors, filterCalls, results >>

\* meta_filter_arns = []
MetaList ==
  /\ Running
  /\ UNCHANGED << genreVars, prepVars, store, s3Vars, nameVars >>
  /\ pc = "nb04_meta_list"
  /\ meta_filter_arns' = << >>
  /\ Leave
  /\ ClearGhosts
  /\ UNCHANGED << raised, now, progVars, fileVars, genres_to_filter, gi,
                  interaction_filter_arns, decade_filter_arns, filters,
                  filterErrors, filterCalls, results >>

\* filterExpression of the create_filter call in the try block
GenreFilterExpression(genre) ==
  "INCLUDE ItemID WHERE Items.GENRE IN (\"" \o genre \o "\")"

\* a retry that sends the expression of the opposite filter
RetryFilterExpression_Exclude(genre) ==
  "EXCLUDE ItemID WHERE Items.GENRE IN (\"" \o genre \o "\")"

\* filterExpression of the create_filter call in the except block
RetryFilterExpression(genre) ==
  "INCLUDE ItemID WHERE Items.GENRE IN (\"" \o genre \o "\")"

\* filterExpression of the filters 'watched', 'unwatched' and '1970s'
WatchedExpression ==
  "INCLUDE ItemID WHERE Interactions.event_type IN (\"watch\")"

UnwatchedExpression ==
  "EXCLUDE ItemID WHERE Interactions.event_type IN (\"watch\")"

DecadeExpression ==
  "INCLUDE ItemID WHERE Items.YEAR >= 1970 AND Items.YEAR < 1980"

\* one personalize.create_filter call as the service received it, with the
\* error code it answered or "none"
CreateFilter(name, filterExpression, error) ==
  [ name |-> name, filterExpression |-> filterExpression, error |-> error ]

\* one round of "for genre in genres_to_filter": try create_filter and
\* append the ARN; except ClientError: print the error when its code is not
\* LimitExceededException, else go on to the sleep and the second call
GenreFor ==
  /\ Running
  /\ UNCHANGED << genreVars, prepVars, store, s3Vars, nameVars >>
  /\ pc = "nb04_genre_filters"
  /\ step \in {"start", "for"}
  /\ IF gi < Len(genres_to_filter)
       THEN LET genre == genres_to_filter[gi + 1] IN
            \/ /\ meta_filter_arns' = Append(meta_filter_arns, FilterArn(genre))
               /\ filters' = filters \cup {FilterArn(genre)}
               /\ filterCalls' =
                    Append(filterCalls,
                           CreateFilter(genre, GenreFilterExpression(genre),
                                        "none"))
               /\ gi' = gi + 1
               /\ step' = "for"
               /\ UNCHANGED << pc, filterErrors >>
            \/ /\ filterErrors < MaxFilterErrors
               /\ filterErrors' = filterErrors + 1
               /\ \E e \in FilterErrors :
                    /\ filterCalls' =
                         Append(filterCalls,
                                CreateFilter(genre,
                                             GenreFilterExpression(genre), e))
                    /\ IF e # "LimitExceededException"
                         THEN /\ gi' = gi + 1
                              /\ step' = "for"
                         ELSE /\ step' = "retry"
                              /\ UNCHANGED gi
               /\ UNCHANGED << pc, meta_filter_arns, filters >>
       ELSE /\ gi' = 0
            /\ Leave
            /\ UNCHANGED << meta_filter_arns, filters, filterErrors,
                            filterCalls >>
  /\ ClearGhosts
  /\ UNCHANGED << raised, now, progVars, fileVars, genres_to_filter,
                  interaction_filter_arns, decade_filter_arns, results >>

\* the else branch of the handler: time.sleep(120), create_filter again and
\* append the ARN; an error of this call is not handled
GenreRetry ==
  /\ Running
  /\ UNCHANGED << genreVars, prepVars, store, s3Vars, nameVars >>
  /\ pc = "nb04_genre_filters"
  /\ step = "retry"
  /\ now' = now + RetrySleep
  /\ LET genre == genres_to_filter[gi + 1] IN
     \/ /\ meta_filter_arns' = Append(meta_filter_arns, FilterArn(genre))
        /\ filters' = filters \cup {FilterArn(genre)}
        /\ filterCalls' =
             Append(filterCalls,
                    CreateFilter(genre, RetryFilterExpression(genre), "none"))
        /\ gi' = gi + 1
        /\ step' = "for"
        /\ UNCHANGED << raised, filterErrors >>
     \/ /\ filterErrors < MaxFilterErrors
        /\ filterErrors' = filterErrors + 1
        /\ \E e \in FilterErrors :
             /\ raised' = e
             /\ filterCalls' =
                  Append(filterCalls,
                         CreateFilter(genre, RetryFilterExpression(genre), e))
        /\ UNCHANGED << step, gi, meta_filter_arns, filters >>
  /\ UNCHANGED << pc, progVars, ghostVars, fileVars, genres_to_filter,
                  interaction_filter_arns, decade_filter_arns, results >>

\* create_filter(name='watched') and create_filter(name='unwatched'), outside
\* any try: an error of either call stops the run
EventFilters ==
  /\ Running
  /\ UNCHANGED << genreVars, prepVars, store, s3Vars, nameVars >>
  /\ pc = "nb04_event_filters"
  /\ \/ /\ filters' = filters \cup {FilterArn("watched"), FilterArn("unwatched")}
        /\ filterCalls' =
             filterCalls \o
               << CreateFilter("watched", WatchedExpression, "none"),
                  CreateFilter("unwatched", UnwatchedExpression, "none") >>
        /\ Leave
        /\ UNCHANGED << raised, filterErrors >>
     \/ /\ filterErrors < MaxFilterErrors
        /\ filterErrors' = filterErrors + 1
        /\ \E e \in FilterErrors :
             /\ raised' = e
             /\ \/ /\ filters' = filters
                   /\ filterCalls' =
                        Append(filterCalls,
                               CreateFilter("watched", WatchedExpression, e))
                \/ /\ filters' = filters \cup {FilterArn("watched")}
                   /\ filterCalls' =
                        filterCalls \o
                          << CreateFilter("watched", WatchedExpression, "none"),
                             CreateFilter("unwatched", UnwatchedExpression, e) >>
        /\ UNCHANGED << pc, step >>
  /\ UNCHANGED << now, progVars, ghostVars, fileVars, genres_to_filter, gi,
                  meta_filter_arns, interaction_filter_arns,
                  decade_filter_arns, results >>

\* create_filter(name='1970s')
DecadeFilter ==
  /\ Running
  /\ UNCHANGED << genreVars, prepVars, store, s3Vars, nameVars >>
  /\ pc = "nb04_decade_filter"
  /\ \/ /\ filters' = filters \cup {FilterArn("1970s")}
        /\ filterCalls' =
             Append(filterCalls, CreateFilter("1970s", DecadeExpression, "none"))
        /\ Leave
        /\ UNCHANGED << raised, filterErrors >>
     \/ /\ filterErrors < MaxFilterErrors
        /\ filterErrors' = filterErrors + 1
        /\ \E e \in FilterErrors :
             /\ raised' = e
             /\ filterCalls' =
                  Append(filterCalls, CreateFilter("1970s", DecadeExpression, e))
        /\ UNCHANGED << pc, step, filters >>
  /\ UNCHANGED << now, progVars, ghostVars, fileVars, genres_to_filter, gi,
                  meta_filter_arns, interaction_filter_arns,
                  decade_filter_arns, results >>

\* interaction_filter_arns = [...] and decade_filter_arns = [...]
FilterLists ==
  /\ Running
  /\ UNCHANGED << genreVars, prepVars, store, s3Vars, nameVars >>
  /\ pc = "nb04_filter_lists"
  /\ interaction_filter_arns' = << FilterArn("watched"), FilterArn("unwatched") >>
  /\ decade_filter_arns' = << FilterArn("1970s") >>
  /\ Leave
  /\ UNCHANGED << raised, now, progVars, ghostVars, fileVars,
                  genres_to_filter, gi, meta_filter_arns, filters,
                  filterErrors, filterCalls, results >>

(* --------------------------- specification ----------------------------- *)
Next ==
  \/ CreateCall
  \/ Upload
  \/ CreateRole
  \/ GetSolutionMetrics
  \/ StartNotebook
  \/ SaveResults
  \/ LoopStart
  \/ WhileCheck
  \/ Describe
  \/ Sleep
  \/ MultiWhile
  \/ MultiFor
  \/ MultiAfter
  \/ MultiSleep
  \/ Genres
  \/ Sample
  \/ MetaList
  \/ GenreFor
  \/ GenreRetry
  \/ EventFilters
  \/ DecadeFilter
  \/ FilterLists

Spec == Init /\ [][Next]_vars

(* ---------------------- extraction of the genres ----------------------- *)
\* the characters of a GENRE value: a letter, the bar and the parenthesis
Chars == {"a", "|", "("}

\* the strings of at most MaxValLen characters, as sequences of characters
Values == UNION { [1..n -> Chars] : n \in 0..MaxValLen }

\* what items_df['GENRE'].unique() may return: distinct values, in any order
Columns(n) ==
  { col \in [1..n -> Values] : \A i, j \in 1..n : i # j => col[i] # col[j] }

\* ch in val
Contains(val, ch) == \E i \in 1..Len(val) : val[i] = ch

\* val.split(sep)
RECURSIVE Split(_, _)
Split(val, sep) ==
  IF ~Contains(val, sep) THEN << val >>
  ELSE LET i == CHOOSE k \in 1..Len(val) :
                  val[k] = sep /\ \A m \in 1..(k - 1) : val[m] # sep
       IN << SubSeq(val, 1, i - 1) >> \o Split(SubSeq(val, i + 1, Len(val)), sep)

\* the function with the test for the parenthesis first
process_for_bar_char_ParenFirst(val, val_list) ==
  IF Contains(val, "(") THEN val_list
  ELSE IF Contains(val, "|") THEN val_list \o Split(val, "|")
  ELSE Append(val_list, val)

\* def process_for_bar_char(val, val_list)
process_for_bar_char(val, val_list) ==
  IF Contains(val, "|") THEN val_list \o Split(val, "|")
  ELSE IF Contains(val, "(") THEN val_list
  ELSE Append(val_list, val)

\* the lists that hold every item of the set S once: list(set(...)) gives
\* the items in an order the program does not choose
Orderings(S) ==
  { l \in [1..Cardinality(S) -> S] :
      \A i, j \in 1..Cardinality(S) : i # j => l[i] # l[j] }

\* everything of the pipeline that the cell of the genres leaves alone
genreFrame ==
  << raised, now, progVars, ghostVars, fileVars, gi, meta_filter_arns,
     interaction_filter_arns, decade_filter_arns, filters, filterErrors,
     filterCalls, results, store, s3Vars, nameVars, prepVars >>

\* the cell runs in the kernel of the second notebook of file 03, on the
\* column GENRE of item-meta.csv
GenreInit ==
  /\ pc = "nb04_genres"
  /\ Fresh
  /\ NoResults
  /\ NoService
  /\ NoTables
  /\ \E n \in 0..MaxValues : unique_genre_field_values \in Columns(n)
  /\ genre_val_list = << >>
  /\ vi = 0

\* for val in unique_genre_field_values:
\*     genre_val_list = process_for_bar_char(val, genre_val_list)
GenreForVal ==
  /\ pc = "nb04_genres"
  /\ raised = "none"
  /\ vi < Len(unique_genre_field_values)
  /\ genre_val_list' =
       process_for_bar_char(unique_genre_field_values[vi + 1], genre_val_list)
  /\ vi' = vi + 1
  /\ step' = "for"
  /\ UNCHANGED << pc, unique_genre_field_values, genres_to_filter, genreFrame >>

\* genres_to_filter = list(set(genre_val_list))
GenreList ==
  /\ pc = "nb04_genres"
  /\ raised = "none"
  /\ vi = Len(unique_genre_field_values)
  /\ genres_to_filter' \in Orderings(Range(genre_val_list))
  /\ Leave
  /\ UNCHANGED << genreVars, genreFrame >>

GenreNext ==
  \/ GenreForVal
  \/ GenreList

GenreSpec == GenreInit /\ [][GenreNext]_vars

(* ------------------ preparation of the interactions ------------------- *)
\* a field that ratings.csv leaves empty: read_csv gives NaN
NaN == -1

\* the values of the fields of a row of ratings.csv
UserIds == {1, NaN}
MovieIds == {10, NaN}
Ratings == {1, 2, 3, 4, NaN}
Timestamps == {100, 200, NaN}

\* what read_csv may return: the rows in file order under the index 0, 1, ...
Row(i, u, m, r, t) ==
  [ index |-> i - 1, userId |-> u, movieId |-> m, rating |-> r, timestamp |-> t ]

\* the table of the rows whose fields f lists
Table(f) == [ i \in DOMAIN f |-> Row(i, f[i][1], f[i][2], f[i][3], f[i][4]) ]

\* x > n on a float column: a comparison with NaN is False
Greater(x, n) == x # NaN /\ x > n

\* df[['userId', 'movieId', 'timestamp']]; df['EVENT_TYPE'] = event
Event(row, event) ==
  [ index |-> row.index, userId |-> row.userId, movieId |-> row.movieId,
    timestamp |-> row.timestamp, EVENT_TYPE |-> event ]

RECURSIVE Map(_, _)
Map(rows, event) ==
  IF rows = << >> THEN << >>
  ELSE << Event(Head(rows), event) >> \o Map(Tail(rows), event)

\* the rows with rating >= 3 taken as watched
WatchedRows_AtLeast(data) ==
  SelectSeq(data, LAMBDA row : row.rating # NaN /\ row.rating >= WatchRating)

\* watched_df[watched_df['rating'] > 3]
WatchedRows(data) == SelectSeq(data, LAMBDA row : Greater(row.rating, WatchRating))

\* clicked_df[clicked_df['rating'] > 1]
ClickedRows(data) == SelectSeq(data, LAMBDA row : Greater(row.rating, ClickRating))

\* the rows of the set rows ordered by timestamp, the timestamps of T
\* ascending; quicksort, the kind of sort the call leaves at its default,
\* does not keep equal timestamps in their order
RECURSIVE Ascending(_, _)
Ascending(rows, T) ==
  IF T = {} THEN { << >> }
  ELSE LET t == CHOOSE x \in T : \A y \in T : x <= y
       IN { a \o b : a \in Orderings({ row \in rows : row.timestamp = t }),
                     b \in Ascending(rows, T \ {t}) }

\* df.sort_values("timestamp", ascending = True, na_position = 'last'): the
\* rows with a timestamp ascending, then the rows without, in their order
sort_values(df) ==
  { a \o SelectSeq(df, LAMBDA row : row.timestamp = NaN) :
      a \in Ascending({ row \in Range(df) : row.timestamp # NaN },
                      { row.timestamp : row \in Range(df) } \ {NaN}) }

\* rename(columns = {'userId':'USER_ID', 'movieId':'ITEM_ID',
\*                   'timestamp':'TIMESTAMP'})
Rename(row) ==
  [ index |-> row.index, USER_ID |-> row.userId, ITEM_ID |-> row.movieId,
    TIMESTAMP |-> row.timestamp, EVENT_TYPE |-> row.EVENT_TYPE ]

\* one line of to_csv(index = False, float_format = '%.0f'): the index is
\* left out, an integral number is written as it is and NaN as an empty field
CsvLine(row) ==
  [ USER_ID |-> row.USER_ID, ITEM_ID |-> row.ITEM_ID,
    TIMESTAMP |-> row.TIMESTAMP, EVENT_TYPE |-> row.EVENT_TYPE ]

\* the cells of notebook 01 that build interactions.csv, in notebook order
PrepCells ==
  << "nb01_watched_df", "nb01_clicked_df", "nb01_interactions_df",
     "nb01_rename", "nb01_to_csv" >>

\* the cell after the preparation cell c; the cell of create_dataset_group
\* follows the last one
NextPrepCell(c) ==
  LET i == CHOOSE k \in 1..Len(PrepCells) : PrepCells[k] = c
  IN IF i = Len(PrepCells) THEN Program[1] ELSE PrepCells[i + 1]

\* everything of the pipeline that the preparation cells leave alone
prepFrame ==
  << step, raised, now, progVars, ghostVars, fileVars, filterVars, results,
     store, s3Vars, nameVars, genreVars >>

\* original_data = pd.read_csv(dataset_dir + '/ratings.csv')
PrepInit ==
  /\ pc = PrepCells[1]
  /\ Fresh
  /\ NoResults
  /\ NoService
  /\ NoGenres
  /\ \E n \in 0..MaxRows :
       \E f \in [1..n -> UserIds \X MovieIds \X Ratings \X Timestamps] :
         original_data = Table(f)
  /\ watched_df = << >>
  /\ clicked_df = << >>
  /\ interactions_df = << >>
  /\ csv = << >>

Watched ==
  /\ pc = "nb01_watched_df"
  /\ watched_df' = Map(WatchedRows(original_data), "watch")
  /\ pc' = NextPrepCell(pc)
  /\ UNCHANGED << original_data, clicked_df, interactions_df, csv, prepFrame >>

Clicked ==
  /\ pc = "nb01_clicked_df"
  /\ clicked_df' = Map(ClickedRows(original_data), "click")
  /\ pc' = NextPrepCell(pc)
  /\ UNCHANGED << original_data, watched_df, interactions_df, csv, prepFrame >>

\* interactions_df = clicked_df.copy(); interactions_df.append(watched_df);
\* interactions_df.sort_values(...)
Interactions ==
  /\ pc = "nb01_interactions_df"
  /\ interactions_df' \in sort_values(clicked_df \o watched_df)
  /\ pc' = NextPrepCell(pc)
  /\ UNCHANGED << original_data, watched_df, clicked_df, csv, prepFrame >>

RenameColumns ==
  /\ pc = "nb01_rename"
  /\ interactions_df' = [ i \in 1..Len(interactions_df) |->
                            Rename(interactions_df[i]) ]
  /\ pc' = NextPrepCell(pc)
  /\ UNCHANGED << original_data, watched_df, clicked_df, csv, prepFrame >>

ToCsv ==
  /\ pc = "nb01_to_csv"
  /\ csv' = [ i \in 1..Len(interactions_df) |-> CsvLine(interactions_df[i]) ]
  /\ pc' = NextPrepCell(pc)
  /\ UNCHANGED << original_data, watched_df, clicked_df, interactions_df,
                  prepFrame >>

PrepNext ==
  \/ Watched
  \/ Clicked
  \/ Interactions
  \/ RenameColumns
  \/ ToCsv

PrepSpec == PrepInit /\ [][PrepNext]_vars

(* ---------------------------- the filter stage -------------------------- *)
\* the data of the save cell that writes file f
DataOf(f) == SaveData(CHOOSE c \in SaveCells : SaveFile(c) = f)

\* the cell of the genres is about to run in a Run All in which the three
\* campaigns were found ACTIVE, the first and the third in the first tick of
\* the polling loop, the second in the next; results/01.json to 03.json and
\* the IPython database hold what the cells before wrote
FilterInit ==
  /\ pc = "nb04_genres"
  /\ step = "start"
  /\ raised = "none"
  /\ now = PollSleep
  /\ max_time = MaxTime("nb04_campaign_loop", 0)
  /\ status = "ACTIVE"
  /\ in_progress = << >>
  /\ idx = 1
  /\ hist = << >>
  /\ calls = 0
  /\ sleeps = 0
  /\ tickStart = << "sims_campaign_arn" >>
  /\ polled = {"sims_campaign_arn"}
  /\ unpolled = NonePolled
  /\ printed = << << "succeeded", "userpersonalization_campaign_arn" >>,
                  << "succeeded", "rerank_campaign_arn" >>,
                  << "succeeded", "sims_campaign_arn" >> >>
  /\ last = [h \in Handles |->
               IF h \in Range(LoopList("nb04_campaign_loop"))
                 THEN "ACTIVE" ELSE "none"]
  /\ exitBy = "break"
  /\ lateCall = FALSE
  /\ observedActive =
       Range(LoopList("nb04_campaign_loop"))
         \cup {"userpersonalization_solution_version_arn",
               "rerank_solution_version_arn"}
  /\ issued = {c \in CreateCells : Stage(c) \in {"03", "04"}}
  /\ described = Range(LoopList("nb04_campaign_loop"))
  /\ ended = {"nb03_sv_loop", "nb04_campaign_loop"}
  /\ genres_to_filter = << >>
  /\ gi = 0
  /\ meta_filter_arns = << >>
  /\ interaction_filter_arns = << >>
  /\ decade_filter_arns = << >>
  /\ filters = {}
  /\ filterErrors = 0
  /\ filterCalls = << >>
  /\ results = [f \in ResultFiles |->
                  IF f = "results/04.json" THEN NoData ELSE DataOf(f)]
  /\ store = [k \in UNION {StoreNames(c) : c \in SaveCells \ {"nb04_save"}} |->
                SaveData(CHOOSE c \in SaveCells \ {"nb04_save"} :
                           k \in StoreNames(c))[k]]
  /\ local = {"interactions.csv", "item-meta.csv"}
  /\ bucket = { S3Object("bucket_name", "interactions.csv"),
                S3Object("bucket_name", "item-meta.csv") }
  /\ imports = bucket
  /\ existing = NamedCells
  /\ rerun = "none"
  /\ NoGenres
  /\ NoTables

\* the cells from the genres to the end of the notebook
FilterNext ==
  \/ Genres
  \/ Sample
  \/ MetaList
  \/ GenreFor
  \/ GenreRetry
  \/ EventFilters
  \/ DecadeFilter
  \/ FilterLists
  \/ SaveResults

FilterSpec == FilterInit /\ [][FilterNext]_vars

(* ------------------ the notebooks that import and train ---------------- *)
\* a cell of notebook 01, of notebook 02 or of the first notebook of file 03
\* is about to run
Training == pc \in Range(Program) /\ Stage(pc) # "04"

\* Run All of notebook 01, of notebook 02 and of the first notebook of file
\* 03, which hold the polling loops of the dataset group, of the two import
\* jobs and of the solution versions
TrainNext ==
  \/ Training /\ CreateCall
  \/ Training /\ Upload
  \/ Training /\ CreateRole
  \/ Training /\ GetSolutionMetrics
  \/ Training /\ StartNotebook
  \/ Training /\ SaveResults
  \/ Training /\ LoopStart
  \/ Training /\ WhileCheck
  \/ Training /\ Describe
  \/ Training /\ Sleep
  \/ Training /\ MultiWhile
  \/ Training /\ MultiFor
  \/ Training /\ MultiAfter
  \/ Training /\ MultiSleep

\* a statement of a polling cell
LoopStep ==
  /\ Training
  /\ pc \in LoopCells
  /\ \/ LoopStart
     \/ WhileCheck
     \/ Describe
     \/ Sleep
     \/ MultiWhile
     \/ MultiFor
     \/ MultiAfter
     \/ MultiSleep

\* a kernel that runs a polling cell goes on to its next statement: every
\* status call returns or raises, and time.sleep returns
TrainSpec == Init /\ [][TrainNext]_vars /\ WF_vars(LoopStep)

(* --------------------------- a second run ------------------------------ *)
\* the first cell of a notebook
FirstCell(s) ==
  CASE s = "01" -> Program[1]
    [] s = "02" -> "nb02_start"
    [] s = "03" -> "nb03_start"
    [] s = "04" -> "nb04_start"

\* Run All of one notebook once more, after the four notebooks have run to
\* the end: a new kernel, while the service keeps its resources and the
\* disk keeps results/ and the IPython database
RunAgain ==
  /\ pc = "done"
  /\ raised = "none"
  /\ rerun = "none"
  /\ \E s \in Stages :
       /\ rerun' = s
       /\ pc' = FirstCell(s)
  /\ step' = "start"
  /\ now' = 0
  /\ max_time' = 0
  /\ status' = "unset"
  /\ in_progress' = << >>
  /\ idx' = 0
  /\ ClearGhosts
  /\ observedActive' = {}
  /\ issued' = {}
  /\ described' = {}
  /\ ended' = {}
  /\ genres_to_filter' = << >>
  /\ gi' = 0
  /\ meta_filter_arns' = << >>
  /\ interaction_filter_arns' = << >>
  /\ decade_filter_arns' = << >>
  /\ filterErrors' = 0
  /\ filterCalls' = << >>
  /\ UNCHANGED << raised, filters, results, store, s3Vars, existing,
                  genreVars, prepVars >>

AgainNext ==
  \/ Next
  \/ RunAgain

\* the four notebooks run, and then one of them may be run a second time
AgainSpec == Init /\ [][AgainNext]_vars

(* ------------------------------ claims --------------------------------- *)

\* the polling cell c has just returned and the next cell has not run yet
JustEnded(c) == exitBy # "none" /\ pc = NextCell(c)

SingleJustEnded == \E c \in SingleLoopCells : JustEnded(c)

MultiJustEnded == \E c \in MultiLoopCells : JustEnded(c)

\* the single-job loop is past its first statement and has not returned
InSingleLoop == pc \in SingleLoopCells /\ step # "start" /\ raised = "none"

DependsOn ==
  [ nb01_create_dataset |-> "dataset_group_arn",
    nb01_create_import_job |-> "dataset_group_arn",
    nb04_create_campaign_up |-> "userpersonalization_solution_version_arn",
    nb04_create_campaign_sims |-> "sims_solution_version_arn",
    nb04_create_campaign_rerank |-> "rerank_solution_version_arn" ]

\* C2: a create_* call that depends on an earlier job has been issued only
\* if the polling loop of that job observed ACTIVE: create_dataset and
\* create_dataset_import_job need the dataset group, create_campaign needs
\* its solution version.
C2_DependencyActive ==
  \A c \in DOMAIN DependsOn : c \in issued => DependsOn[c] \in observedActive

\* what the variables of the kernel say about the single-job loop that ended
SingleOutcome ==
  IF status = "ACTIVE" THEN "Success"
  ELSE IF status = "CREATE FAILED" THEN "Failure"
  ELSE "TimedOut"

\* what the variables of the kernel say about the multi-handle loop that ended
MultiOutcome == IF Len(in_progress) = 0 THEN "Completed" ELSE "TimedOut"

\* C3: a polling loop that ended because its deadline passed leaves an
\* outcome that differs from the one of a loop that ended on a terminal
\* status: after a single-job loop the variable status holds neither ACTIVE
\* nor "CREATE FAILED" exactly when the deadline ended the loop, after a
\* multi-handle loop the pending list is not empty exactly when the
\* deadline ended the loop.
C3_TimedOutDistinct ==
  /\ SingleJustEnded => (exitBy = "deadline" <=> SingleOutcome = "TimedOut")
  /\ MultiJustEnded => (exitBy = "deadline" <=> MultiOutcome = "TimedOut")

\* the import loop of notebook 01 ended by its deadline with the job pending
C3_Witness ==
  /\ JustEnded("nb01_import_loop")
  /\ exitBy = "deadline"
  /\ status = "CREATE PENDING"
  /\ now >= max_time

\* C4 as stated: when the for statement of a tick is over, every handle that
\* was pending when the tick began has been described in this tick.
C4_AllPolledEachTick ==
  pc \in MultiLoopCells /\ step = "after" => polled = Range(tickStart)

\* the lines the multi-handle loop printed for handle h
LinesFor(h) == {i \in 1..Len(printed) : printed[i][2] = h}

\* the handles of the multi-handle loop that has just ended
EndedList == LoopList(CHOOSE c \in MultiLoopCells : JustEnded(c))

\* C5 as stated: a multi-handle loop has ended only if every handle was
\* observed ACTIVE or failed, and each handle was then reported exactly once.
C5_Original ==
  MultiJustEnded =>
    \A h \in Range(EndedList) :
      /\ last[h] \in {"ACTIVE", "CREATE FAILED"}
      /\ Cardinality(LinesFor(h)) = 1

\* C5 as amended: a multi-handle loop ends before its deadline only once
\* every handle has been observed ACTIVE or "CREATE FAILED", and then each
\* handle has been reported exactly once, as succeeded when it was ACTIVE
\* and as failed when it was "CREATE FAILED"; when the deadline ends the loop
\* some handle is still pending, and no handle has been reported twice.
C5_EndsWhenAllTerminal ==
  MultiJustEnded =>
    /\ exitBy = "break" =>
         \A h \in Range(EndedList) :
           /\ last[h] \in {"ACTIVE", "CREATE FAILED"}
           /\ Cardinality(LinesFor(h)) = 1
           /\ \A i \in LinesFor(h) :
                printed[i][1] =
                  (IF last[h] = "ACTIVE" THEN "succeeded" ELSE "failed")
    /\ exitBy = "deadline" => Len(in_progress) > 0
    /\ \A h \in Range(EndedList) :
         /\ Cardinality(LinesFor(h)) <= 1
         /\ h \in Range(in_progress) <=> LinesFor(h) = {}

\* a multi-handle loop ended by break after one build succeeded and another
\* one failed
C5_Witness ==
  /\ MultiJustEnded
  /\ exitBy = "break"
  /\ Len(printed) = 3
  /\ \E i, j \in 1..Len(printed) :
       printed[i][1] = "succeeded" /\ printed[j][1] = "failed"

\* the position of the first ACTIVE in the statuses the loop printed
FirstActive == CHOOSE k \in 1..Len(hist) :
                 hist[k] = "ACTIVE" /\ \A i \in 1..(k - 1) : hist[i] # "ACTIVE"

\* C6: a single-job loop whose status first is ACTIVE at the k-th status call
\* ends after exactly k status calls and k-1 sleeps: every status call but
\* the first follows one sleep (so the first follows none), and neither a
\* sleep nor a call follows the call that returned ACTIVE.
C6_ExactCallsAndSleeps ==
  /\ InSingleLoop => "ACTIVE" \notin Range(hist)
  /\ InSingleLoop /\ step = "describe" => sleeps = calls
  /\ SingleJustEnded /\ "ACTIVE" \in Range(hist) =>
       /\ exitBy = "break"
       /\ Len(hist) = FirstActive
       /\ calls = FirstActive
       /\ sleeps = FirstActive - 1

\* the status sequence [pending, pending, active] ended a single-job loop
\* after 3 calls and 2 sleeps
C6_Witness ==
  /\ SingleJustEnded
  /\ hist = << "CREATE PENDING", "CREATE PENDING", "ACTIVE" >>
  /\ calls = 3
  /\ sleeps = 2

C8_ThrottlingCaught ==
  ~(pc \in LoopCells /\ raised = "ThrottlingException")

\* C9: a non-transient error raised by the status call of one handle of a
\* multi-handle loop ends the polling of that handle only, so the run is
\* never stopped by it while another handle is pending before max_time.
C9_OthersKeepPolling ==
  ~(/\ pc \in MultiLoopCells
    /\ raised = "ResourceNotFoundException"
    /\ Len(in_progress) > 1
    /\ now < max_time)

\* the data written to results/04.json, if any
Saved04 == results["results/04.json"]

Written04 == DOMAIN Saved04 # {}

Written03 == DOMAIN results["results/03.json"] # {}

\* the filter ARNs written to results/04.json
SavedFilterArns ==
  Range(Saved04.meta_filter_arns) \cup Range(Saved04.interaction_filter_arns)
    \cup Range(Saved04.decade_filter_arns)

\* C10 as stated: a filter ARN is in results/04.json only if a status call
\* has been made for that filter (without one the filter cannot have been
\* observed in a terminal state).
C10_Original == Written04 => \A f \in SavedFilterArns : f \in described

\* C10 as amended: results/03.json and results/04.json are written after
\* the polling loop of the solution versions, respectively of the campaigns,
\* has ended; the filter ARNs in results/04.json are the ARNs create_filter
\* returned, written without any status call for a filter.
C10_FiltersSavedUnpolled ==
  /\ Written03 => "nb03_sv_loop" \in ended
  /\ Written04 =>
       /\ "nb04_campaign_loop" \in ended
       /\ SavedFilterArns \subseteq filters
       /\ SavedFilterArns \cap described = {}

\* results/04.json holds the ARNs of seven genre filters, two event filters
\* and the decade filter
C10_Witness ==
  /\ Written04
  /\ Len(Saved04.meta_filter_arns) = SampleSize
  /\ Cardinality(SavedFilterArns) = SampleSize + 3

(* ------------------------ the filter stage ----------------------------- *)
\* the cells after cell c have begun
Past(c) == pc = "done" \/ Place[pc] > Place[c]

\* the create_filter calls sent for a sampled genre
GenreCalls ==
  { i \in 1..Len(filterCalls) : filterCalls[i].name \in Range(genres_to_filter) }

\* the genres for which a create_filter call answered LimitExceededException
Throttled ==
  { filterCalls[i].name : i \in { j \in GenreCalls :
                                    filterCalls[j].error = LimitExceeded } }

\* C11: a LimitExceededException of create_filter in the genre loop never
\* propagates out of the cell of the loop, and once the loop is over every
\* genre whose call was throttled has the ARN of its filter in
\* meta_filter_arns.
C11_ThrottlingRecovered ==
  /\ ~(pc = "nb04_genre_filters" /\ raised = LimitExceeded)
  /\ Past("nb04_genre_filters") =>
       \A g \in Throttled : FilterArn(g) \in Range(meta_filter_arns)

\* C14: every create_filter call for a genre g carries exactly the expression
\* INCLUDE ItemID WHERE Items.GENRE IN ("g"), the first attempt and the retry
\* alike; the call for 'unwatched' carries exactly
\* EXCLUDE ItemID WHERE Interactions.event_type IN ("watch").
C14_FilterExpressions ==
  /\ \A i \in GenreCalls :
       filterCalls[i].filterExpression =
         "INCLUDE ItemID WHERE Items.GENRE IN (\"" \o filterCalls[i].name \o "\")"
  /\ \A i \in 1..Len(filterCalls) :
       /\ filterCalls[i].name = "unwatched" =>
            filterCalls[i].filterExpression =
              "EXCLUDE ItemID WHERE Interactions.event_type IN (\"watch\")"
       /\ (i > 1 /\ filterCalls[i].name = filterCalls[i - 1].name) =>
            filterCalls[i].filterExpression = filterCalls[i - 1].filterExpression

\* a genre was throttled and created at the retry, and the event filters were
\* sent after it
C14_Witness ==
  /\ \E i \in GenreCalls :
       /\ i > 1
       /\ filterCalls[i].name = filterCalls[i - 1].name
       /\ filterCalls[i - 1].error = LimitExceeded
       /\ filterCalls[i].error = "none"
  /\ \E i \in 1..Len(filterCalls) : filterCalls[i].name = "unwatched"
  /\ pc = "done"

(* --------------------- the extracted genre list ------------------------ *)
\* the cell of the genres has returned
Extracted == pc = NextCell("nb04_genres")

\* the pieces of val between two bars, or between a bar and an end of val
Pieces(val) ==
  { SubSeq(val, a, b) : << a, b >> \in
      { w \in (1..(Len(val) + 1)) \X (0..Len(val)) :
          /\ w[2] >= w[1] - 1
          /\ w[1] = 1 \/ val[w[1] - 1] = "|"
          /\ w[2] = Len(val) \/ val[w[2] + 1] = "|"
          /\ \A m \in w[1]..w[2] : val[m] # "|" } }

\* C12: no item of the extracted genre list holds a parenthesis, whether
\* the parenthesis stood in a whole GENRE value or in one piece of a value
\* joined with bars.
C12_NoParenthesis ==
  Extracted => \A i \in 1..Len(genres_to_filter) :
                 ~Contains(genres_to_filter[i], "(")

\* C13: the extracted genre list holds exactly the pieces of the values
\* joined with bars and the unjoined values without a parenthesis, each of
\* them once.
C13_ExactlyTheTokens ==
  Extracted =>
    /\ \A i, j \in 1..Len(genres_to_filter) :
         i # j => genres_to_filter[i] # genres_to_filter[j]
    /\ Range(genres_to_filter) =
         UNION { IF Contains(val, "|") THEN Pieces(val)
                 ELSE IF Contains(val, "(") THEN {} ELSE {val} :
                 val \in Range(unique_genre_field_values) }

\* two values hold the same piece, one of them joined with a bar, and an
\* unjoined value with a parenthesis was left out
C13_Witness ==
  /\ Extracted
  /\ Len(unique_genre_field_values) = 2
  /\ \E i, j \in 1..2 :
       /\ i # j
       /\ Contains(unique_genre_field_values[i], "|")
       /\ ~Contains(unique_genre_field_values[j], "|")
       /\ unique_genre_field_values[j] \in Pieces(unique_genre_field_values[i])
       /\ Len(unique_genre_field_values[j]) > 0

(* ---------------------- the interactions table ------------------------- *)
\* the cell that builds interactions_df has returned
Prepared == pc \in {"nb01_rename", "nb01_to_csv", Program[1]}

\* interactions.csv is written
Written == pc = Program[1]

\* the fields of a row of interactions_df, before and after the renaming
UserOf(row) == IF "userId" \in DOMAIN row THEN row.userId ELSE row.USER_ID
ItemOf(row) == IF "movieId" \in DOMAIN row THEN row.movieId ELSE row.ITEM_ID
TimeOf(row) == IF "timestamp" \in DOMAIN row THEN row.timestamp ELSE row.TIMESTAMP

\* the rows of interactions_df that come from the rating row src as event
RowsOf(src, event) ==
  { i \in 1..Len(interactions_df) :
      /\ interactions_df[i].index = src.index
      /\ interactions_df[i].EVENT_TYPE = event }

\* a rating row lacks a field
Missing(row) ==
  row.userId = NaN \/ row.movieId = NaN \/ row.rating = NaN \/ row.timestamp = NaN

C16_SortedByTimestamp ==
  Written => \A i \in 1..(Len(csv) - 1) :
               /\ csv[i].TIMESTAMP # NaN
               /\ csv[i + 1].TIMESTAMP # NaN
               /\ csv[i].TIMESTAMP <= csv[i + 1].TIMESTAMP

\* row a stood before row b in the table that was sorted: the click rows in
\* source order, then the watch rows in source order
Before(a, b) ==
  \/ a.EVENT_TYPE = "click" /\ b.EVENT_TYPE = "watch"
  \/ a.EVENT_TYPE = b.EVENT_TYPE /\ a.index < b.index

\* C17: rows of the sorted table with equal timestamps stand in the order
\* they had before the sort.
C17_StableSort ==
  Prepared => \A i, j \in 1..Len(interactions_df) :
                (i < j /\ TimeOf(interactions_df[i]) = TimeOf(interactions_df[j]))
                  => Before(interactions_df[i], interactions_df[j])

\* C18: the table is built only from rating rows that lack no field: a row
\* with a missing field stops the preparation with an error.
C18_MissingFieldFails ==
  (\E k \in 1..Len(original_data) : Missing(original_data[k])) =>
    (~Prepared \/ raised # "none")

(* ----------------- the persisted results (C19, C20) -------------------- *)
\* the names a save cell persists: the keys of its data and the names of
\* its %store lines
Persists(c) == DOMAIN SaveData(c) \cup StoreNames(c)

\* the names a cell assigns or persists
Writes(c) == Assigns(c) \cup (IF c \in SaveCells THEN Persists(c) ELSE {})

\* the names the cells of each notebook assign or name in a %store line
Owned ==
  [ s \in Stages |->
      UNION { Assigns(c) \cup (IF c \in SaveCells THEN StoreNames(c) ELSE {}) :
              c \in {d \in Range(Program) : Stage(d) = s} }
        \cup (IF s = "01" THEN ConfigNames ELSE {}) ]

\* C19: the results are append-only across the pipeline: the key sets of
\* results/01.json, 02.json, 03.json and 04.json are pairwise disjoint,
\* each save cell that has run left exactly its own keys in its file and
\* its names in the IPython database, and the cell about to run assigns
\* or persists no name that a cell of another notebook assigns or
\* persists.
C19_AppendOnly ==
  /\ \A f, g \in ResultFiles :
       f # g => DOMAIN results[f] \cap DOMAIN results[g] = {}
  /\ \A c \in SaveCells :
       Past(c) => /\ DOMAIN results[SaveFile(c)] = DOMAIN SaveData(c)
                  /\ Persists(c) \subseteq DOMAIN store
  /\ pc # "done" =>
       \A s \in Stages \ {Stage(pc)} : Writes(pc) \cap Owned[s] = {}

\* the four notebooks have run to the end and each has persisted its keys
C19_Witness ==
  /\ pc = "done"
  /\ \A f \in ResultFiles : DOMAIN results[f] # {}
  /\ \A c \in SaveCells : StoreNames(c) \subseteq DOMAIN store

\* C20: persisting a key that the stored results already hold fails with a
\* duplicate-key error and leaves the stored value as it was: no step
\* changes or removes a value held by a results file or by the IPython
\* database, and a step that persists nothing new onto held keys raises
\* the error.
C20_NeverOverwritten ==
  [][ /\ \A f \in ResultFiles : \A k \in DOMAIN results[f] :
           k \in DOMAIN results'[f] /\ results'[f][k] = results[f][k]
      /\ \A k \in DOMAIN store :
           k \in DOMAIN store' /\ store'[k] = store[k]
      /\ ( /\ pc \in SaveCells
           /\ raised = "none"
           /\ Persists(pc) \cap
                (DOMAIN store \cup UNION {DOMAIN results[f] : f \in ResultFiles})
                  # {} )
           => raised' = "DuplicateKeyError" ]_vars

(* ------------------- the filters of a run (C21, C25, C29) --------------- *)
\* the create_filter calls the service answered with an ARN
Created == { i \in 1..Len(filterCalls) : filterCalls[i].error = "none" }

SingleReturns ==
  pc \in SingleLoopCells /\ step = "describe" /\ raised = "none" /\ raised' = "none"

\* a status call of a multi-handle loop returns in this step
MultiReturns ==
  /\ pc \in MultiLoopCells
  /\ step = "for"
  /\ idx' = idx + 1
  /\ raised = "none"
  /\ raised' = "none"

\* the value of status is neither the success nor the failure token
Unknown(s) == s # "ACTIVE" /\ s # "CREATE FAILED"

\* C22: a status that is neither ACTIVE nor "CREATE FAILED" is treated as
\* non-terminal.  In a single-job loop the call that returns it is followed
\* by the sleep and, before max_time, by the next call; it does not end the
\* loop.  In a multi-handle loop it removes no handle and reports none.  A
\* loop that ended by break holds a success or failure token in status.
C22_UnknownNotTerminal ==
  [][ /\ (SingleReturns /\ Unknown(status')) =>
           /\ pc' = pc
           /\ step' = "sleep"
           /\ exitBy' = "none"
      /\ (pc \in SingleLoopCells /\ step = "sleep" /\ Unknown(status)) =>
           pc' = pc /\ step' = "while" /\ sleeps' = sleeps + 1
      /\ (pc \in SingleLoopCells /\ step = "while" /\ now < max_time) =>
           pc' = pc /\ step' = "describe"
      /\ (MultiReturns /\ Unknown(status')) =>
           /\ in_progress' = in_progress
           /\ printed' = printed
           /\ pc' = pc
      /\ (pc \in LoopCells /\ exitBy' = "break") => ~Unknown(status') ]_vars

\* a single-job loop was answered CREATE_FAILED, slept, asked again, was
\* answered CREATE_FAILED again and is about to sleep
C22_Witness ==
  /\ InSingleLoop
  /\ hist = << "CREATE_FAILED", "CREATE_FAILED" >>
  /\ step = "sleep"
  /\ sleeps = 1
  /\ calls = 2

\* the polling loops of notebooks 01, 02 and of the first notebook of file 03
TrainLoops == {c \in LoopCells : Stage(c) # "04"}

\* a polling loop that runs ends: the cell after it runs (no polling cell
\* is followed by another one), or an error stops the run
Terminates == (pc \in TrainLoops) ~> (pc \notin TrainLoops \/ raised # "none")

\* the status calls the last round of the loop may have made
LastCalls == IF pc \in MultiLoopCells THEN Len(tickStart) ELSE 1

\* the time of the loop's clock at which cell c has surely ended, given how
\* long its last status calls took at most
EndBy(c, callSeconds) == LoopHours(c) * HourLen + callSeconds + PollSleep

C23_ChecksEverySecond ==
  [][ (pc \in SingleLoopCells /\ step = "sleep" /\ step' = "while") =>
        now' = now + 1 ]_vars

(* ------------------- uploads and import jobs (C24) ---------------------- *)
\* C24: in notebooks 01 and 02 create_dataset_import_job is issued only
\* after the CSV was written to data_dir and upload_file has written it to
\* the bucket: when the cell of the import job is about to run, and ever
\* after, the location named in dataLocation is in the bucket and the file
\* is on disk, and every location an import job names has been uploaded in
\* this run.
C24_ImportAfterUpload ==
  /\ imports \subseteq bucket
  /\ \A c \in ImportCells :
       (pc = c \/ Past(c)) =>
         /\ Filename(c) \in local
         /\ DataLocation(BucketName(c), Filename(c)) \in bucket
         /\ Past(c) => DataLocation(BucketName(c), Filename(c)) \in imports

\* both import jobs have been issued, each for the file its notebook uploaded
C24_Witness ==
  /\ Past("nb02_create_import_job")
  /\ imports = { "s3://bucket_name/interactions.csv",
                 "s3://bucket_name/item-meta.csv" }

\* C25: a ClientError of create_filter in the genre loop whose code is not
\* LimitExceededException is raised out of the cell: the call that was
\* answered with it is the last call of the run, the run is stopped by that
\* error and results/04.json is not written.
C25_OtherErrorRaised ==
  \A i \in GenreCalls :
    (filterCalls[i].error # "none" /\ filterCalls[i].error # LimitExceeded) =>
      /\ raised = filterCalls[i].error
      /\ i = Len(filterCalls)
      /\ ~Written04
(* --------------------- the pending list (C27, C28) ---------------------- *)
\* the handles the multi-handle loop that runs was started with
NumHandles == Len(LoopList(pc))

\* handle number i of the list of this tick was passed over by the for
\* statement
Skipped(i) == tickStart[i] \notin polled

\* handle number i of the list of this tick was described and removed
RemovedInTick(i) ==
  /\ tickStart[i] \in polled
  /\ tickStart[i] \notin Range(in_progress)

\* C27: in a multi-handle polling loop no pending handle starves.  When the
\* for statement of a tick is over, a handle of the tick's list that was
\* not described is not the first of the list and the handle just before
\* it was removed in this tick; with n handles at the start no pending
\* handle has gone n ticks in a row without a status call; and a handle
\* still in the list was never answered ACTIVE or "CREATE FAILED": the call
\* that sees the terminal state removes it, so it is removed at the latest
\* n ticks after it became terminal.
C27_NoStarvation ==
  (pc \in MultiLoopCells /\ step # "start") =>
    /\ step \in {"after", "sleep"} =>
         \A i \in 1..Len(tickStart) :
           Skipped(i) => i > 1 /\ RemovedInTick(i - 1)
    /\ \A h \in Range(in_progress) :
         /\ unpolled[h] < NumHandles
         /\ ~IsTerminal(last[h])

\* the third solution version was passed over in two ticks in a row, the
\* second and then the first solution version being removed before it, and
\* is the only one left
C27_Witness ==
  /\ pc = "nb03_sv_loop"
  /\ step = "sleep"
  /\ in_progress = << "rerank_solution_version_arn" >>
  /\ unpolled["rerank_solution_version_arn"] = 2
  /\ last["rerank_solution_version_arn"] = "none"
\* the items of list that are in K, in the order of list
RECURSIVE Keep(_, _)
Keep(list, K) ==
  IF list = << >> THEN << >>
  ELSE IF Head(list) \in K THEN << Head(list) >> \o Keep(Tail(list), K)
  ELSE Keep(Tail(list), K)

\* list new is list old with some items taken out
Shrunk(new, old) == new = Keep(old, Range(new))

\* the handles the step describes that were not yet described in this tick
NewlyPolled == polled' \ polled

\* C28: in a multi-handle polling loop, whose handles are pairwise distinct,
\* a handle that was removed from the pending list is never described
\* again, the pending list only shrinks, and each handle is reported
\* (succeeded or failed) at most once: in every step of the running loop
\* the new list is the old one with items taken out and a handle described
\* or reported in the step was pending before it, and at every moment no
\* handle has two lines and no reported handle is in the list.
C28_RemovedForGood ==
  /\ [][ (pc \in MultiLoopCells /\ step # "start") =>
          /\ Shrunk(in_progress', in_progress)
          /\ NewlyPolled \subseteq Range(in_progress)
          /\ pc' = pc =>
               \A i \in Len(printed) + 1..Len(printed') :
                 /\ printed'[i][2] \in Range(in_progress)
                 /\ printed'[i][2] \notin Range(in_progress') ]_vars
  /\ [](pc \in MultiLoopCells /\ step # "start" =>
          \A h \in Range(LoopList(pc)) :
            /\ Cardinality(LinesFor(h)) <= 1
            /\ LinesFor(h) # {} => h \notin Range(in_progress))

\* the campaign loop has reported its three campaigns, one line each, the
\* last of them in a later tick in which it was the only one pending, and
\* its list is empty
C28_Witness ==
  /\ pc = "nb04_campaign_loop"
  /\ step = "after"
  /\ in_progress = << >>
  /\ Len(printed) = 3
  /\ \A h \in Range(LoopList(pc)) : Cardinality(LinesFor(h)) = 1
  /\ Len(tickStart) = 1
  /\ now >= 2 * PollSleep
(* ------------------- the loop over the genres (C29) --------------------- *)
\* the genres the for statement of the genre loop has taken so far
Visited ==
  IF pc = "nb04_genre_filters"
    THEN (IF step = "retry" THEN gi + 1 ELSE gi)
    ELSE IF Past("nb04_genre_filters") THEN Len(genres_to_filter) ELSE 0

\* the create_filter calls sent under the name of genre g
CallsFor(g) == { i \in 1..Len(filterCalls) : filterCalls[i].name = g }

\* the ARNs of the filters of the genres visited so far, in genre order
VisitedArns == [i \in 1..Visited |-> FilterArn(genres_to_filter[i])]

\* C29: in the genre filter loop create_filter is called at most twice per
\* genre, a second time only right after a LimitExceededException on the
\* first; at most one ARN is recorded per genre, so at every point
\* len(meta_filter_arns) is at most the number of genres already visited and
\* the ARNs are recorded in genre order; and the names used for different
\* genres are pairwise distinct.
C29_GenreLoop ==
  /\ \A i, j \in 1..Len(genres_to_filter) :
       genres_to_filter[i] = genres_to_filter[j] => i = j
  /\ \A g \in Range(genres_to_filter) :
       /\ Cardinality(CallsFor(g)) <= 2
       /\ \A i, j \in CallsFor(g) :
            i < j => j = i + 1 /\ filterCalls[i].error = LimitExceeded
       /\ Cardinality({ k \in 1..Len(meta_filter_arns) :
                          meta_filter_arns[k] = FilterArn(g) }) <= 1
  /\ Len(meta_filter_arns) <= Visited
  /\ meta_filter_arns = Keep(VisitedArns, Range(meta_filter_arns))

\* the loop is over: one genre took two calls, the first answered
\* LimitExceededException, another genre was answered an error of another
\* code and has no ARN, and six ARNs are recorded for the seven genres
C29_Witness ==
  /\ Past("nb04_genre_filters")
  /\ raised = "none"
  /\ \E g \in Range(genres_to_filter) : Cardinality(CallsFor(g)) = 2
  /\ \E g \in Range(genres_to_filter) :
       /\ Cardinality(CallsFor(g)) = 1
       /\ FilterArn(g) \notin Range(meta_filter_arns)
  /\ Len(meta_filter_arns) = 6
  /\ Visited = 7
(* --------------------------- second runs (C30) -------------------------- *)
\* the first create_* call of a notebook
FirstCreate(s) ==
  CASE s = "01" -> "nb01_create_dataset_group"
    [] s = "02" -> "nb02_create_schema"
    [] s = "03" -> "nb03_create_solution_up"
    [] s = "04" -> "nb04_create_campaign_up"

\* C30: the service rejecting a create_* call whose name exists, a notebook
\* that is run a second time after it completed aborts at its first
\* create_* call (create_dataset_group, create_schema, create_solution,
\* create_campaign): the call raises and the run stays at its cell, no
\* create_* call of the second run is accepted, and the service's
\* resources, the files under results/ and the IPython database stay as
\* the first run left them.
C30_SecondRunAborts ==
  /\ [][ rerun' # "none" =>
          /\ results' = results
          /\ store' = store
          /\ existing' = existing
          /\ filters' = filters
          /\ imports' = imports
          /\ bucket' = bucket
          /\ (rerun # "none" /\ pc = FirstCreate(rerun)) =>
               (raised' = AlreadyExists /\ pc' = pc) ]_vars
  /\ [](rerun # "none" =>
          /\ issued = {}
          /\ pc \in {FirstCell(rerun), FirstCreate(rerun)}
          /\ raised \in {"none", AlreadyExists}
          /\ raised = AlreadyExists => pc = FirstCreate(rerun)
          /\ \A c \in SaveCells : DOMAIN results[SaveFile(c)] # {})

\* the second run of the notebook of the campaigns has stopped at
\* create_campaign with the error of the service, after its first cells
C30_Witness ==
  /\ rerun = "04"
  /\ pc = "nb04_create_campaign_up"
  /\ raised = AlreadyExists
  /\ "nb04_create_campaign_up" \in existing
  /\ DOMAIN results["results/04.json"] # {}

====
